---- MODULE Spec2Model ----
(***************************************************************************)
(* A model of src/src/services/supabaseStorageService.ts: the              *)
(* SupabaseStorageService singleton and the storage backend it talks to.   *)
(*                                                                         *)
(* Strings are sequences of fragments.  A fragment is a TLA+ string that   *)
(* stands for a run of UTF-16 code units the code never looks inside: one  *)
(* code unit of a project name ("M", "!", "U0130" for U+0130), the "/" of  *)
(* a key, the "." of a file name, a timestamp, a fixed piece of a message. *)
(* String.includes, lastIndexOf, substring, split and replace work on      *)
(* fragments.  An optional value (undefined in the code) is a set: {} when *)
(* absent, {v} when present.                                               *)
(***************************************************************************)
EXTENDS Integers, Sequences, FiniteSets, TLC

VARIABLES
  objects,   \* the backend: the objects stored in the bucket
  buckets,   \* the backend: the names of the buckets that exist
  last,      \* the service call most recently made: its arguments, the
             \* backend requests it issued, the response, and how it ended
  inits      \* per caller, its initializeBucket call in progress

vars == <<objects, buckets, last, inits>>

\* ------------------------------------------------------------------ bounds

\* The bucket holds at most this many objects (uploads beyond it are not made).
MaxObjects == 2
\* Project names given to the key construction have at most this many code units.
MaxNameLen == 2
\* Callers that may run initializeBucket at the same time.
NumCallers == 2

\* --------------------------------------------------------------- optionals

None == {}
Some(v) == {v}
IsSome(opt) == opt # {}
The(opt) == CHOOSE v \in opt : TRUE
\* A destructuring default: `x = d` takes d only for undefined.
OrDefault(opt, d) == IF opt = {} THEN d ELSE The(opt)

\* ----------------------------------------------------------------- strings

\* s.includes(f) for a fragment f
Includes(s, f) == \E i \in 1..Len(s) : s[i] = f

\* array.includes(x)
ArrayIncludes(arr, x) == \E i \in 1..Len(arr) : arr[i] = x

\* s.lastIndexOf(f), 1-based; 0 stands for JavaScript's -1
LastIndexOf(s, f) ==
  IF Includes(s, f) THEN CHOOSE i \in 1..Len(s) :
                           s[i] = f /\ \A j \in (i+1)..Len(s) : s[j] # f
  ELSE 0

\* key.substring(0, key.lastIndexOf('/')): substring clamps -1 to 0
ParentOf(key) == SubSeq(key, 1, LastIndexOf(key, "/") - 1)

\* key.substring(key.lastIndexOf('/') + 1)
LeafOf(key) == SubSeq(key, LastIndexOf(key, "/") + 1, Len(key))

\* originalname.split('.').pop(): what follows the last ".", the whole name
\* when it has none
FileExtension(originalname) ==
  SubSeq(originalname, LastIndexOf(originalname, ".") + 1, Len(originalname))

IsPrefixOf(p, s) == Len(p) <= Len(s) /\ SubSeq(s, 1, Len(p)) = p

RECURSIVE Join(_, _)
\* array.join(sep)
Join(arr, sep) ==
  IF Len(arr) = 0 THEN <<>>
  ELSE IF Len(arr) = 1 THEN <<arr[1]>>
  ELSE <<arr[1], sep>> \o Join(Tail(arr), sep)

RECURSIVE Flatten(_)
Flatten(ss) == IF Len(ss) = 0 THEN <<>> ELSE Head(ss) \o Flatten(Tail(ss))

\* [a-z], [0-9] and "-": the code units the sanitizing regex keeps
LowerLetters ==
  {"a","b","c","d","e","f","g","h","i","j","k","l","m",
   "n","o","p","q","r","s","t","u","v","w","x","y","z"}
Digits == {"0","1","2","3","4","5","6","7","8","9"}
KeptUnits == LowerLetters \cup Digits \cup {"-"}

\* String.prototype.toLowerCase on one code unit.  U+0130 (capital I with
\* dot above) lowercases to two code units, "i" and U+0307.
LowerOfUnit(c) ==
  CASE c = "M" -> <<"m">>
    [] c = "P" -> <<"p">>
    [] c = "U0130" -> <<"i", "U0307">>
    [] OTHER -> <<c>>

ToLowerCase(s) == Flatten([i \in 1..Len(s) |-> LowerOfUnit(s[i])])

\* s.replace(/[^a-z0-9-]/g, '-')
ReplaceDisallowed(s) ==
  [i \in 1..Len(s) |-> IF s[i] \in KeptUnits THEN s[i] ELSE "-"]

\* ------------------------------------------------------------------ errors

\* createError(statusCode, message) of middleware/errorHandler.js: an Error
\* that carries the status code and the message.
createError(statusCode, message) ==
  [isError |-> TRUE, status |-> Some(statusCode), message |-> message]

\* What a backend client call throws: an Error with no status code of the
\* service, or a value that is no Error at all.
Exception(isError, message) ==
  [isError |-> isError, status |-> None,
   message |-> IF isError THEN message ELSE <<>>]

\* ----------------------------------------------------------- configuration

\* SUPABASE_BUCKET_NAME
BucketName == "project-assets"

DefaultFolder == <<"uploads">>
DefaultAllowedTypes == <<"image/jpeg", "image/png", "image/gif", "image/webp">>
DefaultMaxSize == 5 * 1024 * 1024
ListLimit == 1000

\* ----------------------------------------------------------------- backend

\* How the backend (or the client library in front of it) answers a request:
\* "ok" serves it from the stored state, "error" resolves with an error
\* object {message}, "throw" rejects with an exception.
BackendMessages ==
  { <<"fetch failed">>,
    <<"Invalid file type">>,
    <<"gateway: ", "File too large">> }

Outcomes ==
  {[kind |-> "ok", message |-> <<>>, isError |-> TRUE]}
    \cup {[kind |-> "error", message |-> m, isError |-> TRUE] : m \in BackendMessages}
    \cup {[kind |-> "throw", message |-> m, isError |-> TRUE] : m \in BackendMessages}
    \cup {[kind |-> "throw", message |-> <<>>, isError |-> FALSE]}

Keys(objs) == {o.key : o \in objs}
ObjectAt(objs, key) == CHOOSE o \in objs : o.key = key

\* A request as the service hands it to the client library.
Request(api, path, opts) ==
  [api |-> api, bucket |-> BucketName, path |-> path, opts |-> opts]

\* A response: the call threw `exception`, or resolved with {data, error};
\* data is kept as a sequence of records whatever the request.
Threw(exception) ==
  [threw |-> TRUE, exception |-> Some(exception), error |-> None, data |-> None]
Resolved(data, error) ==
  [threw |-> FALSE, exception |-> None, error |-> error, data |-> data]
Answer(outcome, served) ==
  CASE outcome.kind = "throw" ->
         Threw(Exception(outcome.isError, outcome.message))
    [] outcome.kind = "error" -> Resolved(None, Some(outcome.message))
    [] OTHER -> served

\* storage.from(bucket).upload(path, body, {contentType, cacheControl, upsert}):
\* the response and the objects stored afterwards.  Without upsert an
\* existing path is refused.
StorageUpload(req, body, outcome) ==
  LET stored == [key |-> req.path, body |-> body.id, size |-> body.length,
                 contentType |-> req.opts.contentType]
      served ==
        IF req.bucket \notin buckets
          THEN [response |-> Resolved(None, Some(<<"Bucket not found">>)),
                objects |-> objects]
        ELSE IF req.path \in Keys(objects) /\ ~req.opts.upsert
          THEN [response |-> Resolved(None, Some(<<"The resource already exists">>)),
                objects |-> objects]
        ELSE [response |-> Resolved(Some(<<[path |-> req.path]>>), None),
              objects |-> {o \in objects : o.key # req.path} \cup {stored}]
  IN IF outcome.kind = "ok" THEN served
     ELSE [response |-> Answer(outcome, served.response), objects |-> objects]

\* storage.from(bucket).getPublicUrl(key): string formatting, no request
PublicUrl(key) ==
  <<"https://supabase/storage/v1/object/public/", BucketName, "/">> \o key

\* --------------------------------------------------------------- the calls

NoArgs == [none |-> TRUE]

\* The record of a call: `phase` is "pending" (received, not run), "return"
\* or "raise"; `error` is what it raised; `requests` are the backend requests
\* it issued, in order; `response` is the backend's answer to the last one.
Blank ==
  [op |-> "none", phase |-> "return", args |-> NoArgs, error |-> None,
   requests |-> <<>>, response |-> None, key |-> None,
   uploadResult |-> None, exists |-> FALSE, records |-> <<>>,
   url |-> <<>>, metadata |-> None]

Pending(op, args) == [Blank EXCEPT !.op = op, !.phase = "pending", !.args = args]

\* How a try block ended: it threw `caught`, or it completed.
TryThrew(caught, requests, response) ==
  [threw |-> TRUE, caught |-> Some(caught), requests |-> requests,
   response |-> response]
TryDone(requests, response) ==
  [threw |-> FALSE, caught |-> None, requests |-> requests,
   response |-> response]

\* ------------------------------------------------------------- uploadFile

InvalidTypeMessage(allowedTypes) ==
  <<"Invalid file type", ". Allowed types: ">> \o Join(allowedTypes, ", ")

\* maxSize / (1024 * 1024) is kept as the fraction it is
TooLargeMessage(maxSize) ==
  <<"File too large", ". Maximum size: ", ToString(maxSize), "/1048576", "MB">>

\* if (!allowedTypes.includes(file.mimetype))
InvalidType(file, allowedTypes) == ~ArrayIncludes(allowedTypes, file.mimetype)

\* Mutant: the size check rejects a file of exactly maxSize.
TooLargeOffByOne(file, maxSize) == file.size >= maxSize

\* if (file.size > maxSize)
TooLarge(file, maxSize) == file.size > maxSize

\* Mutant: the project name is not lowercased before the replacement.
SanitizeUploadNoLower(projectName) == ReplaceDisallowed(projectName)

\* projectName.toLowerCase().replace(/[^a-z0-9-]/g, '-') in uploadFile
SanitizeUpload(projectName) == ReplaceDisallowed(ToLowerCase(projectName))

\* `${timestamp}-${randomString}.${fileExtension}`
FileName(originalname, timestamp, randomString) ==
  <<timestamp, "-", randomString, ".">> \o FileExtension(originalname)

\* The key uploadFile builds; `if (projectName)` is false for undefined
\* and for the empty string.
BuildKey(projectName, folder, fileName) ==
  IF IsSome(projectName) /\ The(projectName) # <<>>
    THEN SanitizeUpload(The(projectName)) \o <<"/">> \o folder \o <<"/">> \o fileName
    ELSE folder \o <<"/">> \o fileName

\* Mutant: the upload is submitted with upsert: true.
UploadOptionsUpsert(file) ==
  [contentType |-> file.mimetype, cacheControl |-> "3600", upsert |-> TRUE]

\* The options uploadFile passes to storage.upload
UploadOptions(file) ==
  [contentType |-> file.mimetype, cacheControl |-> "3600", upsert |-> FALSE]

\* The catch block of uploadFile: the two validation errors are recognised
\* by their message and rethrown, everything else is wrapped.
UploadCatch(error) ==
  IF error.isError /\ (Includes(error.message, "Invalid file type")
                        \/ Includes(error.message, "File too large"))
    THEN error
    ELSE createError(500, <<"Failed to upload file: ">>
                            \o (IF error.isError THEN error.message
                                ELSE <<"Unknown error">>))

UploadFile(file, options, timestamp, randomString, outcome) ==
  LET folder == OrDefault(options.folder, DefaultFolder)
      allowedTypes == OrDefault(options.allowedTypes, DefaultAllowedTypes)
      maxSize == OrDefault(options.maxSize, DefaultMaxSize)
      key == BuildKey(options.projectName, folder,
                      FileName(file.originalname, timestamp, randomString))
      req == Request("upload", key, UploadOptions(file))
      sent == StorageUpload(req, file.buffer, outcome)
      valid == ~InvalidType(file, allowedTypes) /\ ~TooLarge(file, maxSize)
      try ==
        IF InvalidType(file, allowedTypes)
          THEN TryThrew(createError(400, InvalidTypeMessage(allowedTypes)), <<>>, None)
        ELSE IF TooLarge(file, maxSize)
          THEN TryThrew(createError(400, TooLargeMessage(maxSize)), <<>>, None)
        ELSE IF sent.response.threw
          THEN TryThrew(The(sent.response.exception), <<req>>, Some(sent.response))
        ELSE IF IsSome(sent.response.error)
          THEN TryThrew(createError(500, <<"Upload failed: ">> \o The(sent.response.error)),
                        <<req>>, Some(sent.response))
        ELSE TryDone(<<req>>, Some(sent.response))
      stored == IF valid THEN sent.objects ELSE objects
  IN /\ Cardinality(stored) <= MaxObjects
     /\ objects' = stored
     /\ last' = [Blank EXCEPT
          !.op = "uploadFile",
          !.args = [file |-> file, options |-> options],
          !.phase = IF try.threw THEN "raise" ELSE "return",
          !.error = IF try.threw THEN Some(UploadCatch(The(try.caught))) ELSE None,
          !.requests = try.requests,
          !.response = try.response,
          !.key = IF valid THEN Some(key) ELSE None,
          !.uploadResult =
             IF try.threw THEN None
             ELSE Some([url |-> PublicUrl(key), key |-> key,
                        bucket |-> BucketName, size |-> file.size])]
     /\ UNCHANGED <<buckets, inits>>

\* ------------------------------------------------------------- deleteFile

\* storage.from(bucket).remove([path])
StorageRemove(req, outcome) ==
  LET served ==
        IF req.bucket \notin buckets
          THEN [response |-> Resolved(None, Some(<<"Bucket not found">>)),
                objects |-> objects]
        ELSE [response |-> Resolved(Some(IF req.path \in Keys(objects)
                                           THEN <<[name |-> req.path]>>
                                           ELSE <<>>), None),
              objects |-> {o \in objects : o.key # req.path}]
  IN IF outcome.kind = "ok" THEN served
     ELSE [response |-> Answer(outcome, served.response), objects |-> objects]

\* The catch blocks of deleteFile, getSignedUploadUrl, getSignedDownloadUrl,
\* getFileMetadata and listProjectFiles: whatever was thrown in the try block,
\* the error created inside it included, is replaced by a fixed error.
FixedCatch(error, text) == createError(500, <<text>>)

DeleteFile(key, outcome) ==
  LET req == Request("remove", key, [none |-> TRUE])
      sent == StorageRemove(req, outcome)
      try ==
        IF sent.response.threw
          THEN TryThrew(The(sent.response.exception), <<req>>, Some(sent.response))
        ELSE IF IsSome(sent.response.error)
          THEN TryThrew(createError(500, <<"Failed to delete file: ">>
                                           \o The(sent.response.error)),
                        <<req>>, Some(sent.response))
        ELSE TryDone(<<req>>, Some(sent.response))
  IN /\ objects' = sent.objects
     /\ last' = [Blank EXCEPT
          !.op = "deleteFile",
          !.args = [key |-> key],
          !.phase = IF try.threw THEN "raise" ELSE "return",
          !.error = IF try.threw
                      THEN Some(FixedCatch(The(try.caught),
                                           "Failed to delete file from storage"))
                      ELSE None,
          !.requests = try.requests,
          !.response = try.response]
     /\ UNCHANGED <<buckets, inits>>

\* ------------------------------------------------------------ signed URLs

\* storage.from(bucket).createSignedUploadUrl(path)
\* storage.from(bucket).createSignedUrl(path, expiresIn): of a stored object
StorageSign(req, outcome) ==
  LET served ==
        IF req.bucket \notin buckets
          THEN Resolved(None, Some(<<"Bucket not found">>))
        ELSE IF req.api = "createSignedUrl" /\ req.path \notin Keys(objects)
          THEN Resolved(None, Some(<<"Object not found">>))
        ELSE Resolved(Some(<<[signedUrl |-> <<"https://supabase/storage/v1/", req.api,
                                            "/", BucketName, "/">> \o req.path
                                            \o <<"?token">>]>>), None)
  IN Answer(outcome, served)

\* The body shared by the two signed-URL methods, which differ in the request
\* and in the text of the catch block's error.
SignedUrlCall(op, args, req, catchText, outcome) ==
  LET resp == StorageSign(req, outcome)
      try ==
        IF resp.threw
          THEN TryThrew(The(resp.exception), <<req>>, Some(resp))
        ELSE IF IsSome(resp.error)
          THEN TryThrew(createError(500, <<"Failed to generate signed URL: ">>
                                           \o The(resp.error)),
                        <<req>>, Some(resp))
        ELSE TryDone(<<req>>, Some(resp))
  IN /\ last' = [Blank EXCEPT
          !.op = op,
          !.args = args,
          !.phase = IF try.threw THEN "raise" ELSE "return",
          !.error = IF try.threw THEN Some(FixedCatch(The(try.caught), catchText))
                    ELSE None,
          !.requests = try.requests,
          !.response = try.response,
          !.url = IF try.threw THEN <<>> ELSE The(resp.data)[1].signedUrl]
     /\ UNCHANGED <<objects, buckets, inits>>

\* expiresIn is accepted and not forwarded
GetSignedUploadUrl(key, contentType, expiresIn, outcome) ==
  SignedUrlCall("getSignedUploadUrl",
                [key |-> key, contentType |-> contentType, expiresIn |-> expiresIn],
                Request("createSignedUploadUrl", key, [none |-> TRUE]),
                "Failed to generate signed upload URL", outcome)

GetSignedDownloadUrl(key, expiresIn, outcome) ==
  SignedUrlCall("getSignedDownloadUrl",
                [key |-> key, expiresIn |-> expiresIn],
                Request("createSignedUrl", key,
                        [expiresIn |-> OrDefault(expiresIn, 3600)]),
                "Failed to generate signed download URL", outcome)

\* ---------------------------------------------------------------- listing

\* The order of fragments in a name-ascending listing (by code unit).
SortOrder ==
  <<"-", ".", "0", "1700000000001", "1700000000002", "a", "i", "m", "p",
    "png", "r1", "r2", "uploads", "videos">>
Rank(f) == IF Includes(SortOrder, f)
             THEN CHOOSE i \in 1..Len(SortOrder) : SortOrder[i] = f
             ELSE 0

RECURSIVE NameLess(_, _)
\* a < b for names
NameLess(a, b) ==
  IF Len(b) = 0 THEN FALSE
  ELSE IF Len(a) = 0 THEN TRUE
  ELSE IF Head(a) = Head(b) THEN NameLess(Tail(a), Tail(b))
  ELSE Rank(Head(a)) < Rank(Head(b))

RECURSIVE SortByName(_, _)
\* the entries of a set in name order, ascending or descending
SortByName(entries, order) ==
  IF entries = {} THEN <<>>
  ELSE LET first == CHOOSE e \in entries :
                      \A x \in entries \ {e} :
                        IF order = "asc" THEN NameLess(e.name, x.name)
                        ELSE NameLess(x.name, e.name)
       IN <<first>> \o SortByName(entries \ {first}, order)

\* What follows `path/` in a key, up to the next "/"
FirstSegment(rest) ==
  IF Includes(rest, "/")
    THEN SubSeq(rest, 1, (CHOOSE i \in 1..Len(rest) :
                            rest[i] = "/" /\ \A j \in 1..(i-1) : rest[j] # "/") - 1)
    ELSE rest

\* The entries directly under the folder `path`: a file, with its metadata,
\* or a sub-folder, without any.
EntriesUnder(path) ==
  LET prefix == IF path = <<>> THEN <<>> ELSE path \o <<"/">>
      under == {o \in objects : IsPrefixOf(prefix, o.key) /\ Len(o.key) > Len(prefix)}
      entry(o) ==
        LET rest == SubSeq(o.key, Len(prefix) + 1, Len(o.key))
        IN IF Includes(rest, "/")
             THEN [name |-> FirstSegment(rest), metadata |-> None]
             ELSE [name |-> rest,
                   metadata |-> Some([size |-> o.size, mimetype |-> o.contentType])]
  IN {entry(o) : o \in under}

\* storage.from(bucket).list(path, {limit, sortBy, search}): by default 100
\* entries in name order; `search` keeps the names that start with it.
StorageList(req, outcome) ==
  LET limit == OrDefault(req.opts.limit, 100)
      sortBy == OrDefault(req.opts.sortBy, [column |-> "name", order |-> "asc"])
      found == {e \in EntriesUnder(req.path) :
                  req.opts.search = None \/ IsPrefixOf(The(req.opts.search), e.name)}
      sorted == SortByName(found, sortBy.order)
      served ==
        IF req.bucket \notin buckets
          THEN Resolved(None, Some(<<"Bucket not found">>))
          ELSE Resolved(Some(SubSeq(sorted, 1, IF Len(sorted) < limit THEN Len(sorted)
                                               ELSE limit)), None)
  IN Answer(outcome, served)

\* The request fileExists and getFileMetadata make for a key
LookupRequest(key) ==
  Request("list", ParentOf(key),
          [limit |-> None, sortBy |-> None, search |-> Some(LeafOf(key))])

\* -------------------------------------------------------------- fileExists

\* Mutant: a backend error is taken for an existing file.
ExistsResultOnError(resp) ==
  IF resp.threw THEN FALSE
  ELSE IsSome(resp.error) \/ (IsSome(resp.data) /\ Len(The(resp.data)) > 0)

\* What fileExists returns for a response: false from the catch block and
\* for an error, else `data && data.length > 0`
ExistsResult(resp) ==
  IF resp.threw THEN FALSE
  ELSE IF IsSome(resp.error) THEN FALSE
  ELSE IsSome(resp.data) /\ Len(The(resp.data)) > 0

\* Mutant: a failed listing is requested a second time.
ExistsRequestsRetry(req, resp) ==
  IF resp.threw \/ IsSome(resp.error) THEN <<req, req>> ELSE <<req>>

\* The requests fileExists issues for a key, given the response to the first
ExistsRequests(req, resp) == <<req>>

FileExists(key, outcome) ==
  LET req == LookupRequest(key)
      resp == StorageList(req, outcome)
      result == ExistsResult(resp)
  IN /\ last' = [Blank EXCEPT
          !.op = "fileExists",
          !.args = [key |-> key],
          !.phase = "return",
          !.requests = ExistsRequests(req, resp),
          !.response = Some(resp),
          !.exists = result]
     /\ UNCHANGED <<objects, buckets, inits>>

\* --------------------------------------------------------- getFileMetadata

GetFileMetadata(key, outcome) ==
  LET req == LookupRequest(key)
      resp == StorageList(req, outcome)
      try ==
        IF resp.threw
          THEN TryThrew(The(resp.exception), <<req>>, Some(resp))
        ELSE IF IsSome(resp.error) \/ resp.data = None \/ Len(The(resp.data)) = 0
          THEN TryThrew(createError(404, <<"File not found">>), <<req>>, Some(resp))
        ELSE TryDone(<<req>>, Some(resp))
      fileInfo == The(resp.data)[1]
  IN /\ last' = [Blank EXCEPT
          !.op = "getFileMetadata",
          !.args = [key |-> key],
          !.phase = IF try.threw THEN "raise" ELSE "return",
          !.error = IF try.threw
                      THEN Some(FixedCatch(The(try.caught), "Failed to get file metadata"))
                      ELSE None,
          !.requests = try.requests,
          !.response = try.response,
          !.metadata =
             IF try.threw THEN None
             ELSE Some([name |-> fileInfo.name,
                        size |-> {m.size : m \in fileInfo.metadata},
                        contentType |-> {m.mimetype : m \in fileInfo.metadata}])]
     /\ UNCHANGED <<objects, buckets, inits>>

\* -------------------------------------------------------- listProjectFiles

\* Mutant: listProjectFiles does not lowercase the project name.
SanitizeListNoLower(projectName) == ReplaceDisallowed(projectName)

\* projectName.toLowerCase().replace(/[^a-z0-9-]/g, '-') in listProjectFiles
SanitizeList(projectName) == ReplaceDisallowed(ToLowerCase(projectName))

\* folder ? `${sanitizedProjectName}/${folder}` : sanitizedProjectName
ListPrefix(projectName, folder) ==
  IF IsSome(folder) /\ The(folder) # <<>>
    THEN SanitizeList(projectName) \o <<"/">> \o The(folder)
    ELSE SanitizeList(projectName)

\* The options listProjectFiles passes to storage.list
ListOptions ==
  [limit |-> Some(ListLimit), sortBy |-> Some([column |-> "name", order |-> "asc"]),
   search |-> None]

\* file => ({Key, Size, LastModified}); the time of modification is not modelled
ListRecord(prefix, file) ==
  [Key |-> prefix \o <<"/">> \o file.name,
   Size |-> {m.size : m \in file.metadata}]

ListProjectFiles(projectName, folder, outcome) ==
  LET prefix == ListPrefix(projectName, folder)
      req == Request("list", prefix, ListOptions)
      resp == StorageList(req, outcome)
      try ==
        IF resp.threw
          THEN TryThrew(The(resp.exception), <<req>>, Some(resp))
        ELSE IF IsSome(resp.error)
          THEN TryThrew(createError(500, <<"Failed to list files: ">> \o The(resp.error)),
                        <<req>>, Some(resp))
        ELSE TryDone(<<req>>, Some(resp))
      data == OrDefault(resp.data, <<>>)
  IN /\ last' = [Blank EXCEPT
          !.op = "listProjectFiles",
          !.args = [projectName |-> projectName, folder |-> folder],
          !.phase = IF try.threw THEN "raise" ELSE "return",
          !.error = IF try.threw
                      THEN Some(FixedCatch(The(try.caught), "Failed to list project files"))
                      ELSE None,
          !.requests = try.requests,
          !.response = try.response,
          !.records = IF try.threw THEN <<>>
                      ELSE [i \in 1..Len(data) |-> ListRecord(prefix, data[i])]]
     /\ UNCHANGED <<objects, buckets, inits>>

\* -------------------------------------------------------- initializeBucket

Callers == 1..NumCallers

\* A caller's initializeBucket call: `pc` is "idle" (no call made), "listing"
\* (awaiting listBuckets), "creating" (awaiting createBucket) or "done";
\* `existed` tells whether the bucket existed when the call began, `listed`
\* and `created` how the two requests were answered ("none" when not made),
\* `snapshot` the bucket names the listing returned, `creates` the
\* createBucket requests the call issued, `raised` what it raised.
NoCall ==
  [pc |-> "idle", existed |-> FALSE, listed |-> "none", snapshot |-> {},
   created |-> "none", creates |-> 0, raised |-> None]

\* storage.listBuckets()
StorageListBuckets(outcome) ==
  Answer(outcome, Resolved(Some(<<[names |-> buckets]>>), None))

\* storage.createBucket(name, options): the response and the buckets afterwards
StorageCreateBucket(name, outcome) ==
  LET served ==
        IF name \in buckets
          THEN [response |-> Resolved(None, Some(<<"The resource already exists">>)),
                buckets |-> buckets]
          ELSE [response |-> Resolved(Some(<<[name |-> name]>>), None),
                buckets |-> buckets \cup {name}]
  IN IF outcome.kind = "ok" THEN served
     ELSE [response |-> Answer(outcome, served.response), buckets |-> buckets]

\* How a response was answered, for the call's record
AnswerKind(resp) ==
  IF resp.threw THEN "throw" ELSE IF IsSome(resp.error) THEN "error" ELSE "ok"

\* The catch block of initializeBucket logs the error and raises nothing.
InitializeCatch(error) == None

\* Mutant: a failed listing does not end the call.
IgnoresListError(resp) == FALSE

\* if (listError) return: no creation after a failed listing
ReturnsOnListError(resp) == IsSome(resp.error)

\* buckets?.some(bucket => bucket.name === this.bucketName)
BucketExists(resp) ==
  IsSome(resp.data) /\ BucketName \in The(resp.data)[1].names

\* The call begins: listBuckets is requested.
InitializeBegin(c) ==
  /\ inits[c].pc \in {"idle", "done"}
  /\ inits' = [inits EXCEPT ![c] =
                 [NoCall EXCEPT !.pc = "listing",
                                !.existed = (BucketName \in buckets)]]
  /\ UNCHANGED <<objects, buckets, last>>

\* listBuckets is answered; the call ends there, or requests createBucket.
InitializeListed(c, outcome) ==
  LET resp == StorageListBuckets(outcome)
      call == [inits[c] EXCEPT
                 !.listed = AnswerKind(resp),
                 !.snapshot = IF IsSome(resp.data) THEN The(resp.data)[1].names ELSE {}]
  IN /\ inits[c].pc = "listing"
     /\ inits' = [inits EXCEPT ![c] =
          IF resp.threw
            THEN [call EXCEPT !.pc = "done",
                              !.raised = InitializeCatch(The(resp.exception))]
          ELSE IF ReturnsOnListError(resp) \/ BucketExists(resp)
            THEN [call EXCEPT !.pc = "done"]
          ELSE [call EXCEPT !.pc = "creating", !.creates = @ + 1]]
     /\ UNCHANGED <<objects, buckets, last>>

\* createBucket is answered; its error is logged.
InitializeCreated(c, outcome) ==
  LET sent == StorageCreateBucket(BucketName, outcome)
  IN /\ inits[c].pc = "creating"
     /\ buckets' = sent.buckets
     /\ inits' = [inits EXCEPT ![c] =
          [@ EXCEPT !.pc = "done",
                    !.created = AnswerKind(sent.response),
                    !.raised = IF sent.response.threw
                                 THEN InitializeCatch(The(sent.response.exception))
                                 ELSE None]]
     /\ UNCHANGED <<objects, last>>

\* ------------------------------------------------------------------ inputs

Timestamps == {"1700000000001", "1700000000002"}
Randoms == {"r1"}

File(mimetype, size, id) ==
  [originalname |-> <<"photo", ".", "png">>, mimetype |-> mimetype, size |-> size,
   buffer |-> [id |-> id, length |-> size]]

Options(folder, allowedTypes, maxSize, projectName) ==
  [folder |-> folder, allowedTypes |-> allowedTypes, maxSize |-> maxSize,
   projectName |-> projectName]

\* Spec: the calls of a service whose bucket is provisioned
MainFiles == {File("image/png", 10, id) : id \in {"b1", "b2"}}
MainFolders == {None, Some(<<"videos">>)}
MainOptions == {Options(f, None, None, Some(<<"P">>)) : f \in MainFolders}
MainOutcomes == {o \in Outcomes : o.kind = "ok" \/ o.message = <<"fetch failed">>}
MainKeys ==
  {BuildKey(o.projectName, OrDefault(o.folder, DefaultFolder),
            FileName(<<"photo", ".", "png">>, t, r)) :
     o \in MainOptions, t \in Timestamps, r \in Randoms}
\* keys looked up: one per folder, and one that has no "/"
LookupKeys ==
  {k \in MainKeys : Includes(k, "1700000000001")} \cup {<<"nokey">>}
\* keys signed: one that uploadFile builds, and one that has no "/"
SignKeys ==
  {k \in LookupKeys : ~Includes(k, "videos")}

Init ==
  /\ objects = {}
  /\ buckets = {BucketName}
  /\ last = Blank
  /\ inits = [c \in Callers |-> NoCall]

Next ==
  \/ \E f \in MainFiles, o \in MainOptions, t \in Timestamps, r \in Randoms,
        out \in MainOutcomes : UploadFile(f, o, t, r, out)
  \/ \E k \in MainKeys, out \in MainOutcomes : DeleteFile(k, out)
  \/ \E k \in SignKeys, out \in MainOutcomes :
        GetSignedUploadUrl(k, "image/png", None, out)
  \/ \E k \in SignKeys, out \in MainOutcomes :
        GetSignedDownloadUrl(k, Some(60), out)
  \/ \E k \in LookupKeys, out \in MainOutcomes : FileExists(k, out)
  \/ \E k \in LookupKeys, out \in MainOutcomes : GetFileMetadata(k, out)
  \/ \E p \in {<<"P">>}, f \in MainFolders, out \in MainOutcomes :
        ListProjectFiles(p, f, out)

Spec == Init /\ [][Next]_vars

\* SpecInit: callers of initializeBucket, alone and overlapping, against a
\* backend that may hold other buckets
InitInit ==
  /\ objects = {}
  /\ buckets \in {{}, {"other-bucket"}}
  /\ last = Blank
  /\ inits = [c \in Callers |-> NoCall]

NextInit ==
  \/ \E c \in Callers : InitializeBegin(c)
  \/ \E c \in Callers, out \in MainOutcomes : InitializeListed(c, out)
  \/ \E c \in Callers, out \in MainOutcomes : InitializeCreated(c, out)

SpecInit == InitInit /\ [][NextInit]_vars

\* SpecValidate: one uploadFile call, over the files and options that the
\* two validations tell apart and every answer of the backend
ValidateSizes == {0, 10, 11, DefaultMaxSize, DefaultMaxSize + 1}
ValidateFiles ==
  {File(m, s, "b1") : m \in {"image/png", "video/mp4", "text/plain"},
                      s \in ValidateSizes}
ValidateOptions ==
  {Options(None, a, m, None) :
     a \in {None, Some(<<"video/mp4", "image/png">>), Some(<<>>)},
     m \in {None, Some(10), Some(0)}}

InitValidate ==
  /\ objects = {}
  /\ buckets = {BucketName}
  /\ last \in {Pending("uploadFile", [file |-> f, options |-> o]) :
                 f \in ValidateFiles, o \in ValidateOptions}
  /\ inits = [c \in Callers |-> NoCall]

\* A received call is run.
RunUpload(outcomes) ==
  /\ last.phase = "pending"
  /\ last.op = "uploadFile"
  /\ \E t \in Timestamps, r \in Randoms, out \in outcomes :
        UploadFile(last.args.file, last.args.options, t, r, out)

NextValidate == RunUpload(Outcomes)

SpecValidate == InitValidate /\ [][NextValidate]_vars

\* SpecKey: one uploadFile or listProjectFiles call for every project name of
\* at most MaxNameLen code units, on a bucket that holds what earlier uploads
\* for the same project and folder stored
NameUnits == {"M", "a", "0", "-", "!", "U0130"}

RECURSIVE NamesUpTo(_)
NamesUpTo(n) ==
  IF n = 0 THEN {<<>>}
  ELSE LET shorter == NamesUpTo(n - 1)
       IN shorter \cup {Append(s, u) : s \in shorter, u \in NameUnits}

KeyNames == NamesUpTo(MaxNameLen)
KeyFolders == {None, Some(<<"videos">>), Some(<<>>)}

\* What uploadFile stored for a file, had the backend served the upload
StoredBy(file, options, timestamp, randomString) ==
  [key |-> BuildKey(options.projectName, OrDefault(options.folder, DefaultFolder),
                    FileName(file.originalname, timestamp, randomString)),
   body |-> file.buffer.id, size |-> file.buffer.length,
   contentType |-> file.mimetype]

InitKey ==
  \E p \in {None} \cup {Some(n) : n \in KeyNames}, f \in KeyFolders,
     earlier \in SUBSET Timestamps :
    /\ objects = {StoredBy(File("image/png", 10, "b1"),
                           Options(f, None, None, p), t, "r1") : t \in earlier}
    /\ Cardinality(objects) <= MaxObjects
    /\ buckets = {BucketName}
    /\ last \in {Pending("uploadFile", [file |-> File("image/png", 10, "b2"),
                                        options |-> Options(f, None, None, p)])}
                  \cup {Pending("listProjectFiles", [projectName |-> n, folder |-> f]) :
                          n \in p}
    /\ inits = [c \in Callers |-> NoCall]

RunList(outcomes) ==
  /\ last.phase = "pending"
  /\ last.op = "listProjectFiles"
  /\ \E out \in outcomes : ListProjectFiles(last.args.projectName, last.args.folder, out)

NextKey ==
  \/ RunUpload(MainOutcomes)
  \/ RunList(MainOutcomes)

SpecKey == InitKey /\ [][NextKey]_vars

\* ------------------------------------------------------------------ claims

\* The call recorded in `last` has run.
Ran(op) == last.op = op /\ last.phase # "pending"
\* The backend's answer to the call's request was a failure.
BackendFailed ==
  IsSome(last.response)
    /\ (The(last.response).threw \/ IsSome(The(last.response).error))
\* The message of that failure (none for a thrown value that is no Error).
BackendMessage ==
  IF The(last.response).threw THEN The(The(last.response).exception).message
  ELSE The(The(last.response).error)
EndsWith(s, m) == Len(m) <= Len(s) /\ SubSeq(s, Len(s) - Len(m) + 1, Len(s)) = m
Raised(status) ==
  last.phase = "raise" /\ IsSome(last.error) /\ The(last.error).status = {status}

\* The effective validation policy of an uploadFile call, as the claim words it
EffectiveAllowed(options) ==
  IF options.allowedTypes = None
    THEN {"image/jpeg", "image/png", "image/gif", "image/webp"}
    ELSE {The(options.allowedTypes)[i] : i \in 1..Len(The(options.allowedTypes))}
EffectiveMax(options) ==
  IF options.maxSize = None THEN 5242880 ELSE The(options.maxSize)

\* C1: an uploadFile call whose file.mimetype is not among the effective
\* allowedTypes, or whose file.size exceeds the effective maxSize, raises an
\* error with status 400 and issues no backend request; a file of an allowed
\* type whose size equals maxSize passes validation (its upload is requested).
C1_ValidationRejects ==
  Ran("uploadFile") =>
    LET file == last.args.file
        options == last.args.options
        allowed == file.mimetype \in EffectiveAllowed(options)
    IN /\ (~allowed \/ file.size > EffectiveMax(options)) =>
            /\ Raised(400)
            /\ last.requests = <<>>
            /\ objects = {}
       /\ (allowed /\ file.size = EffectiveMax(options)) =>
            /\ Len(last.requests) = 1
            /\ ~Raised(400)

\* C1 witness: a file one byte over the default 5 MiB is refused with 400
\* before any request.
C1_Witness ==
  /\ Ran("uploadFile")
  /\ last.args.options.maxSize = None
  /\ last.args.file.mimetype = "image/png"
  /\ last.args.file.size = 5242881
  /\ Raised(400)
  /\ last.requests = <<>>

\* C2: every upload is submitted with upsert = false and never replaces a
\* stored object: a step of uploadFile keeps every object stored before it,
\* and when the key it built was already stored it raises a status-500 error,
\* issues that one request only and leaves the bucket as it was.
C2_NeverOverwrites ==
  [][ (last'.op = "uploadFile" /\ last'.phase # "pending") =>
        /\ \A o \in objects : o \in objects'
        /\ \A i \in 1..Len(last'.requests) : last'.requests[i].opts.upsert = FALSE
        /\ (last'.requests # <<>> /\ last'.requests[1].path \in Keys(objects)) =>
              /\ last'.phase = "raise"
              /\ The(last'.error).status = {500}
              /\ Len(last'.requests) = 1
              /\ objects' = objects ]_vars

\* C2 witness: an upload whose key was already stored has been refused by the
\* backend and raised with status 500.
C2_Witness ==
  /\ Ran("uploadFile")
  /\ Raised(500)
  /\ Len(last.requests) = 1
  /\ last.requests[1].path \in Keys(objects)
  /\ The(last.response).error = Some(<<"The resource already exists">>)
  /\ ObjectAt(objects, last.requests[1].path).body # last.args.file.buffer.id

\* C3: getFileMetadata for a key with no matching object (the listing
\* succeeds and is empty) raises an error with status 404.
C3_NotFoundIs404 ==
  ( /\ Ran("getFileMetadata")
    /\ ~BackendFailed
    /\ The(last.response).data = Some(<<>>) )
  => Raised(404)

\* C4: fileExists never raises: it returns true exactly when the listing of
\* the key's parent, filtered by the leaf name, succeeds with at least one
\* entry, and false when the listing is empty, is an error, or throws.
C4_ExistsNeverRaises ==
  Ran("fileExists") =>
    LET resp == The(last.response)
        key == last.args.key
    IN /\ last.phase = "return"
       /\ last.error = None
       /\ Len(last.requests) = 1
       /\ last.requests[1].api = "list"
       /\ last.requests[1].path = ParentOf(key)
       /\ last.requests[1].opts.search = Some(LeafOf(key))
       /\ last.exists <=>
            (~resp.threw /\ resp.error = None /\ Len(The(resp.data)) > 0)

\* C4 witness: the backend call threw and fileExists returned false.
C4_Witness ==
  /\ Ran("fileExists")
  /\ The(last.response).threw
  /\ last.phase = "return"
  /\ last.exists = FALSE

\* C5: an uploadFile call that passed both validations and whose backend
\* write failed (error object or exception, whatever its message) raises an
\* error with status 500 that carries the backend's message; status 400 is
\* raised only by the two local validations.
C5_BackendFailureIs500 ==
  Ran("uploadFile") =>
    /\ (last.requests # <<>> /\ BackendFailed) =>
          /\ Raised(500)
          /\ EndsWith(The(last.error).message, BackendMessage)
    /\ Raised(400) => last.requests = <<>>

\* C6: when the backend returns an error with message m to deleteFile,
\* getSignedUploadUrl, getSignedDownloadUrl, getFileMetadata or
\* listProjectFiles, the error raised is a fixed prefix followed by m.
C6_BackendTextPreserved ==
  ( /\ \/ Ran("deleteFile")
       \/ Ran("getSignedUploadUrl")
       \/ Ran("getSignedDownloadUrl")
       \/ Ran("getFileMetadata")
       \/ Ran("listProjectFiles")
    /\ IsSome(last.response)
    /\ IsSome(The(last.response).error) )
  => /\ last.phase = "raise"
     /\ EndsWith(The(last.error).message, The(The(last.response).error))
     /\ Len(The(last.error).message) > Len(The(The(last.response).error))

\* The request uploadFile submitted, and what the claims expect of its key
UploadSubmitted == Ran("uploadFile") /\ last.requests # <<>>
SubmittedKey == last.requests[1].path
HasProjectName(options) ==
  options.projectName # None /\ The(options.projectName) # <<>>
FolderOf(options) ==
  IF options.folder = None THEN <<"uploads">> ELSE The(options.folder)
\* the name lowercased, each code unit outside [a-z0-9-] replaced by "-"
ExpectedSegment(name) ==
  LET lowered == ToLowerCase(name)
  IN [i \in 1..Len(lowered) |->
        IF lowered[i] \in LowerLetters \cup Digits \cup {"-"} THEN lowered[i] ELSE "-"]
\* folder/fileName, for some timestamp and random draw
ExpectedTail(options, key) ==
  \E t \in Timestamps, r \in Randoms :
    key = FolderOf(options) \o <<"/", t, "-", r, ".", "png">>
KeyHasShape(options, key) ==
  IF HasProjectName(options)
    THEN LET segment == ExpectedSegment(The(options.projectName))
         IN /\ IsPrefixOf(segment \o <<"/">>, key)
            /\ ExpectedTail(options, SubSeq(key, Len(segment) + 2, Len(key)))
            /\ \A i \in 1..Len(segment) :
                  segment[i] \in LowerLetters \cup Digits \cup {"-"}
    ELSE ExpectedTail(options, key)

\* C7 (as amended): the key uploadFile submits is sanitized/folder/fileName,
\* sanitized being the lowercased project name with each code unit outside
\* [a-z0-9-] replaced by "-", one for one and not collapsed, so as long as
\* the lowercased name; without a project name it is folder/fileName, the
\* folder defaulting to "uploads".
C7_KeyShape ==
  UploadSubmitted =>
    /\ KeyHasShape(last.args.options, SubmittedKey)
    /\ HasProjectName(last.args.options) =>
         Len(FirstSegment(SubmittedKey)) = Len(ToLowerCase(The(last.args.options.projectName)))

\* C7 (as claimed): as above, and the project segment is as long as the
\* project name given.
C7_SegmentAsLongAsInput ==
  UploadSubmitted =>
    /\ KeyHasShape(last.args.options, SubmittedKey)
    /\ HasProjectName(last.args.options) =>
         Len(FirstSegment(SubmittedKey)) = Len(The(last.args.options.projectName))

\* C7 witness: the project name "M!" was stored under "m-/uploads/...".
C7_Witness ==
  /\ UploadSubmitted
  /\ last.phase = "return"
  /\ last.args.options.projectName = Some(<<"M", "!">>)
  /\ last.args.options.folder = None
  /\ IsPrefixOf(<<"m", "-", "/", "uploads", "/">>, SubmittedKey)
  /\ \E o \in objects : o.key = SubmittedKey

\* What the claim expects listProjectFiles to query
ExpectedPrefix(name, folder) ==
  IF folder # None /\ The(folder) # <<>>
    THEN SanitizeUpload(name) \o <<"/">> \o The(folder)
    ELSE SanitizeUpload(name)

\* listProjectFiles queries the prefix built from the name sanitized as
\* uploadFile sanitizes it, asks for 1000 entries by name ascending, and
\* returns one record per entry, in the listing's order, whose Key is the
\* prefix, "/" and the entry's name.
ListingRewritten ==
  Ran("listProjectFiles") =>
    LET prefix == ExpectedPrefix(last.args.projectName, last.args.folder)
        req == last.requests[1]
        resp == The(last.response)
    IN /\ req.api = "list"
       /\ req.path = prefix
       /\ req.opts.limit = Some(1000)
       /\ req.opts.sortBy = Some([column |-> "name", order |-> "asc"])
       /\ last.phase = "return" =>
            LET data == The(resp.data)
            IN /\ Len(last.records) = Len(data)
               /\ Len(data) <= 1000
               /\ \A i \in 1..Len(data) :
                     last.records[i].Key = prefix \o <<"/">> \o data[i].name
               /\ \A i \in 1..(Len(data) - 1) : NameLess(data[i].name, data[i+1].name)

\* C8 (as amended): the listing is rewritten as above, and every key that
\* uploadFile builds for a non-empty projectName and a folder starts with the
\* prefix listProjectFiles queries for them.
C8_ListingUnderPrefix ==
  /\ ListingRewritten
  /\ (UploadSubmitted /\ HasProjectName(last.args.options)) =>
        IsPrefixOf(ListPrefix(The(last.args.options.projectName),
                              last.args.options.folder),
                   SubmittedKey)

\* C8 (as claimed): the same for every projectName, the empty one included.
C8_EveryNameUnderPrefix ==
  /\ ListingRewritten
  /\ (UploadSubmitted /\ last.args.options.projectName # None) =>
        IsPrefixOf(ListPrefix(The(last.args.options.projectName),
                              last.args.options.folder),
                   SubmittedKey)

\* C8 witness: listProjectFiles("M!", "videos") returned two records, in name
\* order, under "m-/videos/".
C8_Witness ==
  /\ Ran("listProjectFiles")
  /\ last.phase = "return"
  /\ last.args.projectName = <<"M", "!">>
  /\ last.args.folder = Some(<<"videos">>)
  /\ Len(last.records) = 2
  /\ \A i \in 1..2 : IsPrefixOf(<<"m", "-", "/", "videos", "/">>, last.records[i].Key)
  /\ Includes(last.records[1].Key, "1700000000001")
  /\ Includes(last.records[2].Key, "1700000000002")

\* C9: initializeBucket never raises; a call requests createBucket at most
\* once, and only after a listing that succeeded and did not hold the bucket
\* name; a call begun once the bucket exists requests no creation.
C9_InitializeIdempotent ==
  \A c \in Callers :
    /\ inits[c].raised = None
    /\ inits[c].creates <= 1
    /\ inits[c].creates > 0 =>
          /\ inits[c].listed = "ok"
          /\ BucketName \notin inits[c].snapshot
    /\ inits[c].existed => inits[c].creates = 0
    /\ inits[c].listed \in {"error", "throw"} =>
          inits[c].pc = "done" /\ inits[c].creates = 0

\* C9 witness: two overlapping calls both requested the creation, one was
\* refused by the backend, and both are done without raising.
C9_Witness ==
  \E c, d \in Callers :
    /\ c # d
    /\ inits[c].pc = "done" /\ inits[d].pc = "done"
    /\ inits[c].creates = 1 /\ inits[d].creates = 1
    /\ inits[c].created = "ok" /\ inits[d].created = "error"
    /\ inits[c].raised = None /\ inits[d].raised = None
    /\ BucketName \in buckets

\* C10: a call of uploadFile, deleteFile, getSignedUploadUrl,
\* getSignedDownloadUrl, fileExists, getFileMetadata or listProjectFiles
\* issues at most one backend request; after a backend failure it has issued
\* exactly that one and has raised (fileExists: returned false); an
\* uploadFile that returned made exactly one request, the upload.
C10_NoRetries ==
  last.op # "none" =>
    /\ Len(last.requests) <= 1
    /\ BackendFailed =>
          /\ Len(last.requests) = 1
          /\ IF last.op = "fileExists"
               THEN last.phase = "return" /\ last.exists = FALSE
               ELSE last.phase = "raise" /\ IsSome(last.error)
    /\ (last.op = "uploadFile" /\ last.phase = "return") =>
          /\ Len(last.requests) = 1
          /\ last.requests[1].api = "upload"
          /\ \E o \in objects : o.key = last.requests[1].path

\* C10 witness: fileExists gave up after the one listing that failed.
C10_Witness ==
  /\ Ran("fileExists")
  /\ The(last.response).error = Some(<<"fetch failed">>)
  /\ Len(last.requests) = 1
  /\ last.exists = FALSE
====
